---------------------------- MODULE Spec2Model ----------------------------
(***************************************************************************)
(* Model of the Rutoken documentation assistant backend:                   *)
(*   backend/rag_service.py  RagService (retrieval, generation, follow-ups, *)
(*                           feedback store)                                *)
(*   backend/app.py          the HTTP handlers /api/assistant,              *)
(*                           /api/assistant/stream, /api/assistant/feedback *)
(*                                                                         *)
(* Text is a sequence of one-character strings.  The three upstream        *)
(* services (embedding, vector search, chat completion) are the            *)
(* environment: every call returns or raises nondeterministically.         *)
(***************************************************************************)
EXTENDS Integers, Sequences, FiniteSets, TLC

VARIABLES
    pc,             \* position of the request: start, embed, search, generate,
                    \* streaming, followup, done
    via,            \* "http": through the app.py handler; "direct": RagService called directly
    mode,           \* "ask" (blocking) or "stream"
    question,       \* the question as given by the caller
    history,        \* the history as given by the caller
    top_k,          \* the requested top_k, or Omitted
    calls,          \* log of the outbound calls made so far, in order
    limit,          \* the limit passed to the vector search
    sources,        \* the normalized sources
    sent,           \* the message list sent to the chat model for the answer
    frags,          \* number of stream chunks received so far
    answer_chunks,  \* stream_answer's answer_chunks
    events,         \* the events emitted so far (stream mode)
    answer,         \* the answer text
    followups,      \* the follow-up list
    answer_id,      \* the minted answer id, or None
    raised,         \* the exception the service call raised, or None
    status,         \* the HTTP status of the response, or None
    feedback_store, \* RagService.feedback_store
    fb_completed,   \* number of save_feedback calls that have returned
    hit_text,       \* payload text of the hit being normalized, max_snippet_chars
    max_snippet_chars,
    snippet,        \* the snippet produced for it, or Pending
    fu_response,    \* the chat response given to _generate_followups
    fu_result       \* what _generate_followups returned, or <<Pending>>

reqVars == <<pc, via, mode, question, history, top_k, calls, limit, sources, sent,
             frags, answer_chunks, events, answer, followups, answer_id, raised, status>>
fbVars == <<feedback_store, fb_completed>>
snipVars == <<hit_text, max_snippet_chars, snippet>>
fuVars == <<fu_response, fu_result>>
vars == <<reqVars, fbVars, snipVars, fuVars>>

---------------------------------------------------------------------------
(* Bounds of the model *)

MaxQ == 2          \* longest question
MaxHist == 9       \* longest history
MaxTopK == 2       \* largest requested top_k
MaxChunks == 2     \* most chunks a completion stream delivers
MaxContent == 2    \* longest content of a blocking completion
MaxItems == 5      \* most entries of a "followups" array
MaxText == 4       \* longest payload text
MaxLimit == 3      \* largest RAG_SNIPPET_CHARS
MaxFeedback == 2   \* most feedback submissions

None == "None"
Pending == <<"pending">>
Chars == {" ", "a"}
Whitespace == {" "}
ExcKinds == {"ValueError", "Exception"}
Uuids == {"u1", "u2"}

RECURSIVE StringsUpTo(_)
StringsUpTo(n) ==
    IF n = 0 THEN {<<>>}
    ELSE LET S == StringsUpTo(n - 1)
         IN  S \cup {Append(s, c) : s \in {t \in S : Len(t) = n - 1}, c \in Chars}

RECURSIVE SeqsUpTo(_, _)
SeqsUpTo(S, n) ==
    IF n = 0 THEN {<<>>}
    ELSE LET P == SeqsUpTo(S, n - 1)
         IN  P \cup {Append(s, x) : s \in {t \in P : Len(t) = n - 1}, x \in S}

Min(a, b) == IF a < b THEN a ELSE b

---------------------------------------------------------------------------
(* str.strip() and "".join *)

RECURSIVE LStrip(_)
LStrip(s) ==
    IF s = <<>> THEN s
    ELSE IF Head(s) \in Whitespace THEN LStrip(Tail(s)) ELSE s

RECURSIVE RStrip(_)
RStrip(s) ==
    IF s = <<>> THEN s
    ELSE IF s[Len(s)] \in Whitespace THEN RStrip(SubSeq(s, 1, Len(s) - 1)) ELSE s

Strip(s) == RStrip(LStrip(s))

RECURSIVE Join(_)
Join(ss) == IF ss = <<>> THEN <<>> ELSE Head(ss) \o Join(Tail(ss))

---------------------------------------------------------------------------
(* RagService._normalize_sources: the snippet of one hit *)

Ellipsis == <<".", ".", ".">>

\* payload.get("text") or ""
PayloadText(hit) == IF hit.present THEN hit.text ELSE <<>>

\* text[:n]
Prefix(text, n) == SubSeq(text, 1, Min(n, Len(text)))

\* Variant: the ellipsis added from len(text) >= limit on
NormalizeSnippetAtLimit(hit, lim) ==
    LET text == Strip(PayloadText(hit))
        snip == Prefix(text, lim)
    IN  IF Len(text) >= lim THEN snip \o Ellipsis ELSE snip

NormalizeSnippet(hit, lim) ==
    LET text == Strip(PayloadText(hit))
        snip == Prefix(text, lim)
    IN  IF Len(text) > lim THEN snip \o Ellipsis ELSE snip

---------------------------------------------------------------------------
(* RagService._build_context and RagService._build_messages *)

HistoryWindow == 8

_build_context(srcs) == [i \in 1..Len(srcs) |-> <<"S", i, srcs[i]>>]

SystemMessage == [role |-> "system", content |-> <<"system">>]

UserMessage(q, ctx) == [role |-> "user", content |-> <<"question", q, "context", ctx>>]

\* Variant: history[:8]
FirstWindow(h) == SubSeq(h, 1, Min(HistoryWindow, Len(h)))

\* history[-8:]
LastWindow(h) ==
    IF Len(h) > HistoryWindow THEN SubSeq(h, Len(h) - HistoryWindow + 1, Len(h)) ELSE h

_build_messages(q, h, ctx) ==
    <<SystemMessage>> \o (IF h # <<>> THEN LastWindow(h) ELSE <<>>) \o <<UserMessage(q, ctx)>>

---------------------------------------------------------------------------
(* RagService._generate_followups *)

FollowupMax == 4

Fallback == << <<"f", "1">>, <<"f", "2">>, <<"f", "3">>, <<"f", "4">> >>

\* The chat response of the follow-up call, by what json.loads makes of it:
\*   raise         the call raised
\*   content_none  message.content is None or empty (json.loads("") raises)
\*   invalid_json  the content is not JSON (json.loads raises)
\*   not_object    the JSON value is not an object
\*   no_key        an object without "followups"
\*   not_list      an object whose "followups" is not an array
\*   list          an object whose "followups" is the array `items`
FollowupKinds ==
    {"raise", "content_none", "invalid_json", "not_object", "no_key", "not_list", "list"}

ItemTexts == {<<" ">>, <<" ", "q">>}

FollowupResponses ==
    {[kind |-> k, items |-> <<>>] : k \in FollowupKinds}
    \cup {[kind |-> "list", items |-> it] : it \in SeqsUpTo(ItemTexts, MaxItems)}

\* [str(x).strip() for x in items if str(x).strip()]
RECURSIVE Clean(_)
Clean(items) ==
    IF items = <<>> THEN <<>>
    ELSE LET x == Strip(Head(items))
         IN  IF x # <<>> THEN <<x>> \o Clean(Tail(items)) ELSE Clean(Tail(items))

_generate_followups(resp) ==
    IF resp.kind = "list" THEN Prefix(Clean(resp.items), FollowupMax) ELSE Fallback

---------------------------------------------------------------------------
(* RagService._retrieve: the limit given to the search *)

\* self.default_top_k, the configured RAG_TOP_K
default_top_k == 3

Omitted == [given |-> FALSE, value |-> 0]
Given(k) == [given |-> TRUE, value |-> k]

\* Variant: the default limit whatever was requested
RetrieveLimitDefault(k) == default_top_k

\* top_k or self.default_top_k
RetrieveLimit(k) == IF k.given /\ k.value # 0 THEN k.value ELSE default_top_k

---------------------------------------------------------------------------
(* Inputs of a request *)

Vias == {"http", "direct"}
Modes == {"ask", "stream"}
Questions == StringsUpTo(MaxQ)
Message(i) == [role |-> IF i % 2 = 1 THEN "user" ELSE "assistant", content |-> <<"m", i>>]
Histories == {[i \in 1..n |-> Message(i)] : n \in 0..MaxHist}
TopKs == {Omitted} \cup {Given(k) : k \in 1..MaxTopK}

\* What the upstream services may answer
Outcomes == {"ok"} \cup ExcKinds
Contents == {[present |-> FALSE, text |-> <<>>]}
            \cup {[present |-> TRUE, text |-> t] : t \in StringsUpTo(MaxContent)}
\* A chunk carries no choices, no content, or a text of at most one character
ChunkContents == {[present |-> FALSE, text |-> <<>>], [present |-> TRUE, text |-> <<>>]}
                 \cup {[present |-> TRUE, text |-> <<c>>] : c \in Chars}
StreamChunks == {[choices |-> FALSE, content |-> [present |-> FALSE, text |-> <<>>]]}
                \cup {[choices |-> TRUE, content |-> c] : c \in ChunkContents}

\* content or ""
TextOr(content) == IF content.present THEN content.text ELSE <<>>

\* chunk.choices[0].delta.content if chunk.choices else None
DeltaOf(chunk) == IF chunk.choices THEN TextOr(chunk.content) ELSE <<>>

DeltaEvent(d) == [type |-> "delta", delta |-> d]
FinalEvent(a, srcs, fu, id) ==
    [type |-> "final", answer |-> a, sources |-> srcs, followups |-> fu, answer_id |-> id]
ErrorEvent(exc) == [type |-> "error", error |-> exc]

---------------------------------------------------------------------------
(* The handlers of app.py around the service call *)

\* assistant / assistant_stream pass payload.question.strip()
ServiceArg == IF via = "http" THEN Strip(question) ELSE question

\* Variant: if not question
QuestionIsEmptyNoStrip(q) == q = <<>>

\* ask / stream_answer: if not question.strip()
QuestionIsEmpty(q) == Strip(q) = <<>>

\* Variant: "".join(answer_chunks), not stripped
StreamAnswerNoStrip(chunks) == Join(chunks)

\* stream_answer: answer = "".join(answer_chunks).strip()
StreamAnswer(chunks) == Strip(Join(chunks))

\* assistant: except ValueError -> 400, except Exception -> 500
AssistantStatus(exc) == IF exc = "ValueError" THEN "400" ELSE "500"

\* Variant: the generator has no except clause, the stream just ends
EventStreamNoCatch(evs, exc) == evs

\* _event_stream: except Exception -> one error event
EventStreamOnException(evs, exc) == Append(evs, ErrorEvent(exc))

\* Variant: a stage that raised is called again
AfterStageRetry(stage, ok) ==
    IF ~ok THEN stage
    ELSE CASE stage = "start" -> "embed"
           [] stage = "embed" -> "search"
           [] stage = "search" -> "generate"
           [] stage = "generate" -> "followup"
           [] stage = "followup" -> "done"

\* Where ask / stream_answer go after a stage returned (ok) or raised: a stage
\* that raises ends the call, the exception leaving it
AfterStage(stage, ok) ==
    IF ~ok THEN "done"
    ELSE CASE stage = "start" -> "embed"
           [] stage = "embed" -> "search"
           [] stage = "search" -> "generate"
           [] stage = "generate" -> "followup"
           [] stage = "followup" -> "done"

Call(stage, ok) == [stage |-> stage, ok |-> ok]

\* An exception leaves the service call at `stage` and reaches the caller
Raise(stage, exc) ==
    /\ raised' = exc
    /\ pc' = AfterStage(stage, FALSE)
    /\ status' = IF via = "http"
                 THEN (IF mode = "ask" THEN AssistantStatus(exc) ELSE "200")
                 ELSE None
    /\ events' = IF via = "http" /\ mode = "stream"
                 THEN EventStreamOnException(events, exc)
                 ELSE events

ReqInit(V, M, Q, H, K) ==
    /\ pc = "start"
    /\ via \in V
    /\ mode \in M
    /\ question \in Q
    /\ via = "http" => Len(question) >= 1
    /\ history \in H
    /\ top_k \in K
    /\ calls = <<>>
    /\ limit = 0
    /\ sources = <<>>
    /\ sent = <<>>
    /\ frags = 0
    /\ answer_chunks = <<>>
    /\ events = <<>>
    /\ answer = <<>>
    /\ followups = <<>>
    /\ answer_id = None
    /\ raised = None
    /\ status = None

FbInit == feedback_store = <<>> /\ fb_completed = 0

SnipOff ==
    /\ hit_text = [present |-> FALSE, text |-> <<>>]
    /\ max_snippet_chars = 0
    /\ snippet = Pending

FuOff == fu_response = [kind |-> "raise", items |-> <<>>] /\ fu_result = <<Pending>>

---------------------------------------------------------------------------
(* ask and stream_answer, one outbound call per step *)

\* if not question.strip(): raise ValueError("question is empty")
Validate ==
    /\ pc = "start"
    /\ IF QuestionIsEmpty(ServiceArg)
       THEN /\ Raise("start", "ValueError")
            /\ UNCHANGED <<calls, limit, sources, sent, frags, answer_chunks,
                           answer, followups, answer_id>>
       ELSE /\ pc' = AfterStage("start", TRUE)
            /\ UNCHANGED <<calls, limit, sources, sent, frags, answer_chunks, events,
                           answer, followups, answer_id, raised, status>>
    /\ UNCHANGED <<via, mode, question, history, top_k, fbVars, snipVars, fuVars>>

\* _retrieve: vec = self._embed_query(question.strip())
Embed ==
    /\ pc = "embed"
    /\ \E o \in Outcomes :
         /\ calls' = Append(calls, Call("embed", o = "ok"))
         /\ IF o = "ok"
            THEN /\ pc' = AfterStage("embed", TRUE)
                 /\ UNCHANGED <<events, raised, status>>
            ELSE Raise("embed", o)
    /\ UNCHANGED <<limit, sources, sent, frags, answer_chunks, answer, followups, answer_id>>
    /\ UNCHANGED <<via, mode, question, history, top_k, fbVars, snipVars, fuVars>>

\* _retrieve: hits = self._search(vec, top_k or self.default_top_k), then the
\* sources are normalized in the order of the hits
Search ==
    /\ pc = "search"
    /\ limit' = RetrieveLimit(top_k)
    /\ \/ \E n \in 0..limit' :
            /\ calls' = Append(calls, Call("search", TRUE))
            /\ sources' = [i \in 1..n |-> i]
            /\ pc' = AfterStage("search", TRUE)
            /\ UNCHANGED <<events, raised, status>>
       \/ \E exc \in ExcKinds :
            /\ calls' = Append(calls, Call("search", FALSE))
            /\ Raise("search", exc)
            /\ UNCHANGED sources
    /\ UNCHANGED <<sent, frags, answer_chunks, answer, followups, answer_id>>
    /\ UNCHANGED <<via, mode, question, history, top_k, fbVars, snipVars, fuVars>>

\* ask: answer = self._generate_answer(question.strip(), history or [], context)
Generate ==
    /\ pc = "generate"
    /\ mode = "ask"
    /\ sent' = _build_messages(Strip(ServiceArg), history, _build_context(sources))
    /\ \/ \E content \in Contents :
            /\ calls' = Append(calls, Call("generate", TRUE))
            /\ answer' = Strip(TextOr(content))
            /\ pc' = AfterStage("generate", TRUE)
            /\ UNCHANGED <<events, raised, status>>
       \/ \E exc \in ExcKinds :
            /\ calls' = Append(calls, Call("generate", FALSE))
            /\ Raise("generate", exc)
            /\ UNCHANGED answer
    /\ UNCHANGED <<limit, sources, frags, answer_chunks, followups, answer_id>>
    /\ UNCHANGED <<via, mode, question, history, top_k, fbVars, snipVars, fuVars>>

\* stream_answer: messages built, the completion stream opened
OpenStream ==
    /\ pc = "generate"
    /\ mode = "stream"
    /\ sent' = _build_messages(Strip(ServiceArg), history, _build_context(sources))
    /\ \/ /\ calls' = Append(calls, Call("generate", TRUE))
          /\ pc' = "streaming"
          /\ UNCHANGED <<events, raised, status>>
       \/ \E exc \in ExcKinds :
            /\ calls' = Append(calls, Call("generate", FALSE))
            /\ Raise("generate", exc)
    /\ UNCHANGED <<limit, sources, frags, answer_chunks, answer, followups, answer_id>>
    /\ UNCHANGED <<via, mode, question, history, top_k, fbVars, snipVars, fuVars>>

\* for chunk in stream: one chunk arrives; an empty one is skipped
Chunk ==
    /\ pc = "streaming"
    /\ frags < MaxChunks
    /\ \E chunk \in StreamChunks :
         LET delta == DeltaOf(chunk)
         IN  IF delta = <<>>
             THEN UNCHANGED <<answer_chunks, events>>
             ELSE /\ answer_chunks' = Append(answer_chunks, delta)
                  /\ events' = Append(events, DeltaEvent(delta))
    /\ frags' = frags + 1
    /\ UNCHANGED <<pc, calls, limit, sources, sent, answer, followups, answer_id,
                   raised, status>>
    /\ UNCHANGED <<via, mode, question, history, top_k, fbVars, snipVars, fuVars>>

\* for chunk in stream: the stream raises instead of delivering a chunk
ChunkRaise ==
    /\ pc = "streaming"
    /\ \E exc \in ExcKinds : Raise("generate", exc)
    /\ calls' = [calls EXCEPT ![Len(calls)].ok = FALSE]
    /\ UNCHANGED <<limit, sources, sent, frags, answer_chunks, answer, followups, answer_id>>
    /\ UNCHANGED <<via, mode, question, history, top_k, fbVars, snipVars, fuVars>>

\* the stream ends: answer = "".join(answer_chunks).strip()
StreamEnd ==
    /\ pc = "streaming"
    /\ answer' = StreamAnswer(answer_chunks)
    /\ pc' = AfterStage("generate", TRUE)
    /\ UNCHANGED <<calls, limit, sources, sent, frags, answer_chunks, events, followups,
                   answer_id, raised, status>>
    /\ UNCHANGED <<via, mode, question, history, top_k, fbVars, snipVars, fuVars>>

\* followups = self._generate_followups(...); answer_id = str(uuid.uuid4());
\* ask returns the tuple, stream_answer yields the final event
Followups ==
    /\ pc = "followup"
    /\ \E resp \in FollowupResponses :
         /\ calls' = Append(calls, Call("followup", resp.kind # "raise"))
         /\ followups' = _generate_followups(resp)
    /\ \E u \in Uuids : answer_id' = u
    /\ events' = IF mode = "stream"
                 THEN Append(events, FinalEvent(answer, sources, followups', answer_id'))
                 ELSE events
    /\ status' = IF via = "http" THEN "200" ELSE None
    /\ pc' = AfterStage("followup", TRUE)
    /\ UNCHANGED <<limit, sources, sent, frags, answer_chunks, answer, raised>>
    /\ UNCHANGED <<via, mode, question, history, top_k, fbVars, snipVars, fuVars>>

---------------------------------------------------------------------------
(* save_feedback, as called by assistant_feedback *)

Votes == {"up", "down"}
\* an answer_id that ask may have issued, and one it never issues
FeedbackIds == {"u1", "unseen"}

FeedbackRecord(id, vote) == [answer_id |-> id, vote |-> vote, question |-> None, answer |-> None]

\* Variant: a second vote on the same answer_id is dropped
save_feedback_dedup(store, rec) ==
    IF \E i \in 1..Len(store) : store[i].answer_id = rec.answer_id
    THEN store
    ELSE Append(store, rec)

\* self.feedback_store.append({...})
save_feedback(store, rec) == Append(store, rec)

assistant_feedback ==
    /\ fb_completed < MaxFeedback
    /\ \E id \in FeedbackIds, v \in Votes :
         feedback_store' = save_feedback(feedback_store, FeedbackRecord(id, v))
    /\ fb_completed' = fb_completed + 1
    /\ UNCHANGED <<reqVars, snipVars, fuVars>>

---------------------------------------------------------------------------
(* The pure steps on their own *)

Hits == {[present |-> FALSE, text |-> <<>>]}
        \cup {[present |-> TRUE, text |-> t] : t \in StringsUpTo(MaxText)}

_normalize_sources ==
    /\ snippet = Pending
    /\ snippet' = NormalizeSnippet(hit_text, max_snippet_chars)
    /\ UNCHANGED <<hit_text, max_snippet_chars, reqVars, fbVars, fuVars>>

FollowupsOnly ==
    /\ fu_result = <<Pending>>
    /\ fu_result' = _generate_followups(fu_response)
    /\ UNCHANGED <<fu_response, reqVars, fbVars, snipVars>>

---------------------------------------------------------------------------
(* Specifications *)

Request ==
    \/ Validate
    \/ Embed
    \/ Search
    \/ Generate
    \/ OpenStream
    \/ Chunk
    \/ ChunkRaise
    \/ StreamEnd
    \/ Followups

\* One request through ask or stream_answer, any question and top_k, no history
Init ==
    /\ ReqInit(Vias, Modes, Questions, {<<>>}, TopKs)
    /\ FbInit /\ SnipOff /\ FuOff
Next == Request
Spec == Init /\ [][Next]_vars

\* One request with a history of any length up to MaxHist
InitMessages ==
    /\ ReqInit(Vias, Modes, {<<" ", "a">>}, Histories, {Given(1)})
    /\ FbInit /\ SnipOff /\ FuOff
SpecMessages == InitMessages /\ [][Next]_vars

\* Feedback submissions interleaved with the steps of one request
InitFeedback ==
    /\ ReqInit({"http"}, Modes, {<<"a">>}, {<<>>}, {Given(1)})
    /\ FbInit /\ SnipOff /\ FuOff
NextFeedback == Request \/ assistant_feedback
SpecFeedback == InitFeedback /\ [][NextFeedback]_vars

\* Snippet normalization of one hit
InitSnippet ==
    /\ ReqInit({"direct"}, {"ask"}, {<<>>}, {<<>>}, {Omitted})
    /\ FbInit /\ FuOff
    /\ hit_text \in Hits
    /\ max_snippet_chars \in 0..MaxLimit
    /\ snippet = Pending
NextSnippet == _normalize_sources
SpecSnippet == InitSnippet /\ [][NextSnippet]_vars

\* Follow-up generation on one chat response
InitFollowups ==
    /\ ReqInit({"direct"}, {"ask"}, {<<>>}, {<<>>}, {Omitted})
    /\ FbInit /\ SnipOff
    /\ fu_response \in FollowupResponses
    /\ fu_result = <<Pending>>
NextFollowups == FollowupsOnly
SpecFollowups == InitFollowups /\ [][NextFollowups]_vars

---------------------------------------------------------------------------
(* Properties *)

IsTerminal(e) == e.type \in {"final", "error"}
Last(seq) == seq[Len(seq)]
Served == via = "http" /\ mode = "stream"

RECURSIVE DeltaTexts(_)
DeltaTexts(evs) ==
    IF evs = <<>> THEN <<>>
    ELSE IF Head(evs).type = "delta"
         THEN <<Head(evs).delta>> \o DeltaTexts(Tail(evs))
         ELSE DeltaTexts(Tail(evs))

\* C1: the events of /api/assistant/stream are delta events followed by exactly
\* one terminal event, final or error: a terminal event is always the last event
\* emitted, and a finished stream has one.
C1_StreamTerminated ==
    Served =>
        /\ \A i \in 1..Len(events) : IsTerminal(events[i]) => i = Len(events)
        /\ pc = "done" => (events # <<>> /\ IsTerminal(Last(events)))

\* C1 witness: a served stream that failed after a delta was emitted.
C1_Witness ==
    /\ Served /\ pc = "done" /\ raised # None
    /\ Len(events) >= 2
    /\ events[1].type = "delta"
    /\ Last(events).type = "error"

\* C2: a question that is empty or only whitespace makes ask and stream_answer
\* raise ValueError with no outbound call made.
C2_BlankQuestionRejected ==
    (Strip(question) = <<>> /\ pc # "start") =>
        /\ pc = "done"
        /\ raised = "ValueError"
        /\ calls = <<>>
        /\ answer_id = None

\* C2 witness: stream_answer called directly with a whitespace-only question.
C2_Witness ==
    /\ via = "direct" /\ mode = "stream"
    /\ question = <<" ">>
    /\ pc = "done"

RequestedTopK == IF top_k.given THEN top_k.value ELSE default_top_k

\* C4: a successful ask returns at most top_k sources (the configured default
\* when top_k is omitted) and at most 4 follow-ups; so does the final event.
C4_ResultBounds ==
    (pc = "done" /\ raised = None) =>
        /\ Len(sources) <= RequestedTopK
        /\ Len(followups) <= 4
        /\ mode = "stream" =>
             /\ Last(events).type = "final"
             /\ Len(Last(events).sources) <= RequestedTopK
             /\ Len(Last(events).followups) <= 4

\* C4 witness: top_k = 1 requested, one source and four generated follow-ups.
C4_Witness ==
    /\ pc = "done" /\ raised = None /\ mode = "ask"
    /\ top_k = Given(1)
    /\ Len(sources) = 1
    /\ Len(followups) = 4 /\ followups # Fallback

\* C5: in a stream that ends with a final event, the delta texts joined in
\* order and stripped are the final event's answer.
C5_DeltasMakeAnswer ==
    (mode = "stream" /\ events # <<>> /\ Last(events).type = "final") =>
        Strip(Join(DeltaTexts(events))) = Last(events).answer

\* C5 witness: a final event after two deltas, the first of them whitespace.
C5_Witness ==
    /\ mode = "stream" /\ Len(events) = 3
    /\ Last(events).type = "final"
    /\ events[1] = DeltaEvent(<<" ">>)
    /\ events[2] = DeltaEvent(<<"a">>)

\* C6 (as claimed): /api/assistant answers 400 exactly when the question is
\* empty, and 500 on every other failure, whatever the exception type.
C6_StatusByCause ==
    (via = "http" /\ mode = "ask" /\ pc = "done") =>
        /\ status = "400" <=> Strip(question) = <<>>
        /\ (raised # None /\ Strip(question) # <<>>) => status = "500"

StageOrder == <<"embed", "search", "generate", "followup">>

\* C7: the outbound calls are made in the order embed, search, generate,
\* follow-up, each at most once and only after the one before returned; when
\* embed, search or generate raises, the call ends with that exception, no
\* later stage is called and no answer_id is minted.
C7_StrictSequence ==
    /\ Len(calls) <= Len(StageOrder)
    /\ \A i \in 1..Len(calls) : calls[i].stage = StageOrder[i]
    /\ \A i \in 1..(Len(calls) - 1) : calls[i].ok
    /\ \A i \in 1..Len(calls) :
         (~calls[i].ok /\ calls[i].stage # "followup") =>
             /\ i = Len(calls)
             /\ pc = "done"
             /\ raised # None
             /\ answer_id = None
    /\ answer_id # None => (Len(calls) = Len(StageOrder) /\ raised = None)

\* C7 witness: the completion stream raised after a delta; three calls made.
C7_Witness ==
    /\ mode = "stream" /\ pc = "done"
    /\ Len(calls) = 3 /\ ~calls[3].ok
    /\ answer_chunks # <<>>

\* C8: the message list sent for the answer is the system message, the last
\* min(8, len(history)) history messages oldest first, and one user message
\* with the question and the context, in ask and in stream_answer alike.
C8_MessageList ==
    sent # <<>> =>
        LET m == Min(8, Len(history))
        IN  /\ Len(sent) = m + 2
            /\ sent[1] = SystemMessage
            /\ \A i \in 1..m : sent[1 + i] = history[Len(history) - m + i]
            /\ sent[m + 2] = UserMessage(Strip(question), _build_context(sources))

\* C8 witness: stream_answer sent its messages for a history longer than 8.
C8_Witness ==
    /\ mode = "stream" /\ sent # <<>>
    /\ Len(history) > 8

\* C9 (as claimed): a payload text longer than the limit gives its first
\* `limit` characters and "...", a text within the limit is the snippet as is.
C9_SnippetOfRawText ==
    snippet # Pending =>
        LET text == PayloadText(hit_text)
        IN  /\ Len(text) > max_snippet_chars =>
                 snippet = SubSeq(text, 1, max_snippet_chars) \o Ellipsis
            /\ Len(text) <= max_snippet_chars => snippet = text

\* C9 (amended): the same of the payload text stripped of leading and trailing
\* whitespace; the snippet is never longer than the limit plus 3.
C9_SnippetOfStrippedText ==
    snippet # Pending =>
        LET text == Strip(PayloadText(hit_text))
        IN  /\ Len(text) > max_snippet_chars =>
                 snippet = SubSeq(text, 1, max_snippet_chars) \o Ellipsis
            /\ Len(text) <= max_snippet_chars => snippet = text
            /\ Len(snippet) <= max_snippet_chars + 3

\* C9 witness: a text with leading whitespace, cut at a limit of 2.
C9_Witness ==
    /\ snippet # Pending
    /\ hit_text = [present |-> TRUE, text |-> <<" ", "a", "a", "a">>]
    /\ max_snippet_chars = 2
    /\ snippet = <<"a", "a", ".", ".", ".">>

\* A failure of the follow-up step: anything but a "followups" array, or an
\* array that leaves no entry once blank entries are dropped
FollowupFailed(resp) == resp.kind # "list" \/ Clean(resp.items) = <<>>

\* C3 (as claimed): when the follow-up call raises, the response is not JSON,
\* is not an object with a "followups" array, or the resulting list is empty,
\* _generate_followups returns the fixed fallback list.
C3_FallbackOnAnyFailure ==
    (fu_result # <<Pending>> /\ FollowupFailed(fu_response)) => fu_result = Fallback

\* C10: the feedback store is append-only: every completed save_feedback call
\* added one record at the end, earlier records stay in place, the store holds
\* as many records as calls completed, and no step of ask or stream_answer
\* changes it.
C10_AppendOnly ==
    /\ [](Len(feedback_store) = fb_completed)
    /\ [][/\ fb_completed' - fb_completed \in {0, 1}
          /\ Len(feedback_store') = Len(feedback_store) + (fb_completed' - fb_completed)
          /\ SubSeq(feedback_store', 1, Len(feedback_store)) = feedback_store
          /\ reqVars' # reqVars => feedback_store' = feedback_store]_vars

\* C10 witness: two equal records for an answer_id never issued, stored while a
\* stream is open.
C10_Witness ==
    /\ pc = "streaming"
    /\ Len(feedback_store) = 2
    /\ feedback_store[1] = feedback_store[2]
    /\ feedback_store[1].answer_id = "unseen"

===========================================================================
